---- MODULE Spec2Model ----
(***************************************************************************)
(* Model of pptx/parts/slides.py: the slide-like parts (_BaseSlide, Slide,  *)
(* SlideLayout, SlideMaster) and the SlideCollection view over the          *)
(* presentation's sldIdLst and relationship table.                          *)
(*                                                                          *)
(* Four specifications share the definitions below:                         *)
(*   Spec      one caller driving a SlideCollection (add_slide, indexing,   *)
(*             iteration, len);                                             *)
(*   SpecLoad  one slide-like part being constructed, saved as a package    *)
(*             part and loaded from one;                                    *)
(*   SpecImage one slide-like part being given images;                      *)
(*   SpecConc  two add_slide calls on one collection, interleaved at the    *)
(*             granularity of the statements of add_slide.                  *)
(***************************************************************************)
EXTENDS Integers, Sequences, FiniteSets, TLC

VARIABLES
    heap,       \* the part objects created so far; a part's address is its index
    prs_rels,   \* SlideCollection._prs_rels: the presentation's relationships
    sldIdLst,   \* SlideCollection._sldIdLst: the <p:sldIdLst> entries
    ret,        \* what the last public call on the collection returned or raised
    part,       \* SpecLoad, SpecImage: the slide-like part at hand
    pkgpart,    \* SpecLoad: the package part a load reads its relationships from
    images,     \* SpecImage: the package's image registry (Package._images)
    calls,      \* SpecImage: what each _add_image call on `part` returned
    pc,         \* SpecConc: where each add_slide call stands
    loc         \* SpecConc: each add_slide call's local variables

vars == <<heap, prs_rels, sldIdLst, ret, part, pkgpart, images, calls, pc, loc>>

collVars == <<heap, prs_rels, sldIdLst, ret>>
loadVars == <<part, pkgpart, images, calls>>
concVars == <<pc, loc>>

-----------------------------------------------------------------------------
(* Bounds of the model *)

MaxSlides == 3
MaxRels == 3
MaxCalls == 3

-----------------------------------------------------------------------------
(* Values *)

\* A reference to a part (or to nothing): parts are compared by identity.
Ref(kind, id) == [kind |-> kind, id |-> id]

None == Ref("None", 0)
AssertionError == Ref("AssertionError", 0)
IndexError == Ref("IndexError", 0)

RT_SLIDE == "RT.SLIDE"
RT_SLIDE_LAYOUT == "RT.SLIDE_LAYOUT"
RT_SLIDE_MASTER == "RT.SLIDE_MASTER"
RT_IMAGE == "RT.IMAGE"

CT_SLIDE == "CT.PML_SLIDE"
CT_SLIDE_LAYOUT == "CT.PML_SLIDE_LAYOUT"
CT_SLIDE_MASTER == "CT.PML_SLIDE_MASTER"

Layouts == {Ref("layout", 1), Ref("layout", 2), Ref("layout", 3)}
Masters == {Ref("master", 1), Ref("master", 2)}

\* Image files a caller may hand to _add_image, and the bytes each holds:
\* "a.png" and "a_copy.png" hold the same bytes.
Files == {"a.png", "a_copy.png", "b.png"}
Content(file) == IF file = "b.png" THEN "bytes_b" ELSE "bytes_a"

Rel(rId, reltype, target) == [rId |-> rId, reltype |-> reltype, target |-> target]

-----------------------------------------------------------------------------
(* The base part layer (pptx.parts.part), as slides.py uses it *)

RECURSIVE FirstFree(_, _)
FirstFree(used, n) == IF n \in used THEN FirstFree(used, n + 1) ELSE n

\* The number n of the next free 'rId<n>' of a relationship collection.
next_rId(rels) == FirstFree({rels[i].rId : i \in 1..Len(rels)}, 1)

\* BasePart._add_relationship, split as its code runs: look for an existing
\* relationship of that type to that target, else take the next free rId and
\* append a new relationship.
existing_rel(rels, reltype, target) ==
    {i \in 1..Len(rels) : rels[i].reltype = reltype /\ rels[i].target = target}

_add_relationship(rels, reltype, target) ==
    LET found == existing_rel(rels, reltype, target) IN
    IF found /= {}
    THEN [rels |-> rels,
          rel |-> rels[CHOOSE i \in found : \A j \in found : i <= j]]
    ELSE LET rel == Rel(next_rId(rels), reltype, target)
         IN [rels |-> Append(rels, rel), rel |-> rel]

\* _RelationshipCollection.part_with_rId: the target of the first relationship
\* with that rId; KeyError when there is none.
KeyError == Ref("KeyError", 0)

part_with_rId(rels, rId) ==
    LET found == {i \in 1..Len(rels) : rels[i].rId = rId} IN
    IF found = {} THEN KeyError
    ELSE rels[CHOOSE i \in found : \A j \in found : i <= j].target

\* CT_SlideIdList.add_sldId: a new <p:sldId> child, appended, with the next
\* free id (ids start at 256).
next_id(lst) ==
    IF lst = <<>> THEN 256
    ELSE 1 + (CHOOSE m \in {lst[i].id : i \in 1..Len(lst)} :
                 \A j \in 1..Len(lst) : lst[j].id <= m)

add_sldId(lst, rId) == Append(lst, [id |-> next_id(lst), rId |-> rId])

\* self._sldIdLst[key], a Python sequence subscripted with an integer: the
\* position taken counts from the end for a negative key; IndexError (ok
\* FALSE) when the key is beyond either end.
seq_getitem(seq, key) ==
    IF 0 <= key /\ key < Len(seq) THEN [ok |-> TRUE, pos |-> key + 1]
    ELSE IF key < 0 /\ -key <= Len(seq) THEN [ok |-> TRUE, pos |-> Len(seq) + key + 1]
    ELSE [ok |-> FALSE, pos |-> 0]

-----------------------------------------------------------------------------
(* _BaseSlide and its subclasses *)

NoShapes == "None"
ShapeCollection == "ShapeCollection(spTree)"
NoPartname == <<>>

\* _BaseSlide.__init__
BaseSlide__init__(content_type) ==
    [cls |-> content_type,
     partname |-> NoPartname,
     _shapes |-> NoShapes,
     placeholders |-> None,
     _slidelayout |-> None,
     _slidemaster |-> None,
     _slidelayouts |-> <<>>,
     _relationships |-> <<>>,
     loaded |-> FALSE]

\* shapes without its assertion.
shapes_unguarded(p) == p._shapes

\* _BaseSlide.shapes
shapes(p) == IF p._shapes = NoShapes THEN "AssertionError" ELSE p._shapes

\* Slide.__init__ that does not keep the layout it is given.
Slide__init__unbound(slidelayout) ==
    LET base == BaseSlide__init__(CT_SLIDE)
        s == [base EXCEPT !._shapes = ShapeCollection]
    IN IF slidelayout /= None
       THEN [s EXCEPT !.placeholders = slidelayout,
                      !._relationships =
                          _add_relationship(s._relationships, RT_SLIDE_LAYOUT,
                                            slidelayout).rels]
       ELSE s

\* Slide.__init__ that does not record the relationship to its layout.
Slide__init__norel(slidelayout) ==
    LET base == BaseSlide__init__(CT_SLIDE)
        s == [base EXCEPT !._slidelayout = slidelayout,
                          !._shapes = ShapeCollection]
    IN IF slidelayout /= None
       THEN [s EXCEPT !.placeholders = slidelayout]
       ELSE s

\* Slide.__init__
Slide__init__(slidelayout) ==
    LET base == BaseSlide__init__(CT_SLIDE)
        s == [base EXCEPT !._slidelayout = slidelayout,
                          !._shapes = ShapeCollection]
    IN IF slidelayout /= None
       THEN [s EXCEPT !.placeholders = slidelayout,
                      !._relationships =
                          _add_relationship(s._relationships, RT_SLIDE_LAYOUT,
                                            slidelayout).rels]
       ELSE s

\* Slide.slidelayout
slidelayout(p) == p._slidelayout

\* BasePart._load: the part takes the package part's relationships.
BasePart_load(p, rels) == [p EXCEPT !._relationships = rels]

\* _BaseSlide._load; `loaded` records that a load has completed.
BaseSlide_load(p, rels) ==
    [BasePart_load(p, rels) EXCEPT !._shapes = ShapeCollection, !.loaded = TRUE]

\* for rel in self._relationships: if rel.reltype == reltype: <field> = rel.target
\* run from position i on, `cur` being the field's value so far.
RECURSIVE scan_target(_, _, _, _)
scan_target(rels, reltype, i, cur) ==
    IF i > Len(rels) THEN cur
    ELSE scan_target(rels, reltype, i + 1,
                     IF rels[i].reltype = reltype THEN rels[i].target ELSE cur)

\* The scan that stops at its first match.
RECURSIVE scan_first(_, _, _, _)
scan_first(rels, reltype, i, cur) ==
    IF i > Len(rels) THEN cur
    ELSE IF rels[i].reltype = reltype THEN rels[i].target
    ELSE scan_first(rels, reltype, i + 1, cur)

\* Slide._load with a break after the first RT.SLIDE_LAYOUT relationship.
Slide_load_first_match(p, rels) ==
    LET q == BaseSlide_load(p, rels)
    IN [q EXCEPT !._slidelayout =
            scan_first(q._relationships, RT_SLIDE_LAYOUT, 1, q._slidelayout)]

\* Slide._load
Slide_load(p, rels) ==
    LET q == BaseSlide_load(p, rels)
    IN [q EXCEPT !._slidelayout =
            scan_target(q._relationships, RT_SLIDE_LAYOUT, 1, q._slidelayout)]

\* SlideLayout.__init__
SlideLayout__init__ ==
    [BaseSlide__init__(CT_SLIDE_LAYOUT) EXCEPT !._slidemaster = None]

\* SlideLayout.slidemaster
slidemaster(p) == IF p._slidemaster = None THEN AssertionError ELSE p._slidemaster

\* SlideLayout._load
SlideLayout_load(p, rels) ==
    LET q == BaseSlide_load(p, rels)
    IN [q EXCEPT !._slidemaster =
            scan_target(q._relationships, RT_SLIDE_MASTER, 1, q._slidemaster)]

\* PartCollection() and PartCollection._loadpart
PartCollection == <<>>
_loadpart(coll, target) == Append(coll, target)

\* SlideMaster.__init__
SlideMaster__init__ ==
    [BaseSlide__init__(CT_SLIDE_MASTER) EXCEPT !._slidelayouts = PartCollection]

\* SlideMaster.slidelayouts
slidelayouts(p) == p._slidelayouts

\* for rel in self._relationships: if rel.reltype == RT.SLIDE_LAYOUT:
\*     self._slidelayouts._loadpart(rel.target)
RECURSIVE load_layouts(_, _, _)
load_layouts(rels, i, coll) ==
    IF i > Len(rels) THEN coll
    ELSE load_layouts(rels, i + 1,
                      IF rels[i].reltype = RT_SLIDE_LAYOUT
                      THEN _loadpart(coll, rels[i].target) ELSE coll)

\* A collection's members in the order of their numbers.
RECURSIVE sorted_insert(_, _)
sorted_insert(coll, target) ==
    IF coll = <<>> THEN <<target>>
    ELSE IF target.id < Head(coll).id THEN <<target>> \o coll
    ELSE <<Head(coll)>> \o sorted_insert(Tail(coll), target)

RECURSIVE sorted_layouts(_, _)
sorted_layouts(coll, i) ==
    IF i > Len(coll) THEN <<>>
    ELSE sorted_insert(sorted_layouts(coll, i + 1), coll[i])

\* SlideMaster._load that keeps its layouts sorted by number.
SlideMaster_load_sorted(p, rels) ==
    LET q == BaseSlide_load(p, rels)
    IN [q EXCEPT !._slidelayouts =
            sorted_layouts(load_layouts(q._relationships, 1, q._slidelayouts), 1)]

\* SlideMaster._load
SlideMaster_load(p, rels) ==
    LET q == BaseSlide_load(p, rels)
    IN [q EXCEPT !._slidelayouts =
            load_layouts(q._relationships, 1, q._slidelayouts)]

\* Package._images.add_image: the image part holding the file's bytes, a new
\* one only when no image of the registry holds the same bytes.
images_add_image(registry, file) ==
    LET same == {i \in 1..Len(registry) : registry[i] = Content(file)} IN
    IF same /= {}
    THEN [images |-> registry, image |-> Ref("image", CHOOSE i \in same : TRUE)]
    ELSE [images |-> Append(registry, Content(file)),
          image |-> Ref("image", Len(registry) + 1)]

\* _add_image that makes its own relationship instead of asking
\* _add_relationship for one.
_add_image_adhoc(rels, registry, file) ==
    LET a == images_add_image(registry, file)
        rel == Rel(next_rId(rels), RT_IMAGE, a.image)
    IN [rels |-> Append(rels, rel), images |-> a.images, image |-> a.image,
        rel |-> rel]

\* _BaseSlide._add_image, on a part with relationships `rels` in a package
\* with image registry `registry`.
_add_image(rels, registry, file) ==
    LET a == images_add_image(registry, file)
        r == _add_relationship(rels, RT_IMAGE, a.image)
    IN [rels |-> r.rels, images |-> a.images, image |-> a.image, rel |-> r.rel]

-----------------------------------------------------------------------------
(* SlideCollection *)

\* SlideCollection._slide_from_sldId
_slide_from_sldId(rels, sldId) == part_with_rId(rels, sldId.rId)

\* SlideCollection._slides: the slides in sldIdLst order.
_slides(lst, rels) == [i \in 1..Len(lst) |-> _slide_from_sldId(rels, lst[i])]

\* SlideCollection.__len__
len(lst) == Len(lst)

\* __getitem__ that clamps a key past the end to the last slide.
__getitem__clamped(lst, rels, key) ==
    LET k == IF key >= Len(lst) THEN Len(lst) - 1 ELSE key
        at == seq_getitem(lst, k)
    IN IF at.ok THEN _slide_from_sldId(rels, lst[at.pos]) ELSE IndexError

\* SlideCollection.__getitem__
__getitem__(lst, rels, key) ==
    IF key >= Len(lst) THEN IndexError
    ELSE LET at == seq_getitem(lst, key) IN
         IF at.ok THEN _slide_from_sldId(rels, lst[at.pos]) ELSE IndexError

\* The partname numbered from 0: idx where the code has idx+1.
partname_of_zero_based(idx) == <<"/ppt/slides/slide", idx, ".xml">>

\* The partname '/ppt/slides/slide%d.xml' % (idx+1), kept as its three pieces.
partname_of(idx) == <<"/ppt/slides/slide", idx + 1, ".xml">>

\* SlideCollection._rename_slides: for idx, slide in enumerate(self._slides),
\* from position `idx` (0-based) on.
RECURSIVE rename_from(_, _, _, _)
rename_from(h, lst, rels, idx) ==
    IF idx >= Len(lst) THEN h
    ELSE LET slide == _slide_from_sldId(rels, lst[idx + 1]) IN
         \* an rId with no relationship: part_with_rId raises, the loop ends
         IF slide = KeyError THEN h
         ELSE rename_from([h EXCEPT ![slide.id].partname = partname_of(idx)],
                          lst, rels, idx + 1)

_rename_slides(h, lst, rels) == rename_from(h, lst, rels, 0)

Returned(op, key, value, items) ==
    [op |-> op, key |-> key, value |-> value, items |-> items]

\* add_slide that takes an rId for the slide but leaves the presentation's
\* relationships without it.
add_slide_unregistered(layout) ==
    /\ Len(sldIdLst) < MaxSlides
    /\ LET slide == Slide__init__(layout)
           addr == Ref("slide", Len(heap) + 1)
           r == _add_relationship(prs_rels, RT_SLIDE, addr)
           lst == add_sldId(sldIdLst, r.rel.rId)
       IN /\ prs_rels' = prs_rels
          /\ sldIdLst' = lst
          /\ heap' = _rename_slides(Append(heap, slide), lst, prs_rels)
          /\ ret' = Returned("add_slide", 0, addr, <<layout>>)
    /\ UNCHANGED <<loadVars, concVars>>

\* SlideCollection.add_slide
add_slide(layout) ==
    /\ Len(sldIdLst) < MaxSlides
    /\ LET slide == Slide__init__(layout)
           addr == Ref("slide", Len(heap) + 1)
           r == _add_relationship(prs_rels, RT_SLIDE, addr)
           lst == add_sldId(sldIdLst, r.rel.rId)
       IN /\ prs_rels' = r.rels
          /\ sldIdLst' = lst
          /\ heap' = _rename_slides(Append(heap, slide), lst, r.rels)
          /\ ret' = Returned("add_slide", 0, addr, <<layout>>)
    /\ UNCHANGED <<loadVars, concVars>>

Keys == -(MaxSlides + 1)..(MaxSlides + 1)

\* slides[key]
getitem(key) ==
    /\ ret' = Returned("getitem", key, __getitem__(sldIdLst, prs_rels, key), <<>>)
    /\ UNCHANGED <<heap, prs_rels, sldIdLst, loadVars, concVars>>

\* for slide in slides
iterate ==
    /\ ret' = Returned("iter", 0, None, _slides(sldIdLst, prs_rels))
    /\ UNCHANGED <<heap, prs_rels, sldIdLst, loadVars, concVars>>

\* len(slides)
length ==
    /\ ret' = Returned("len", len(sldIdLst), None, <<>>)
    /\ UNCHANGED <<heap, prs_rels, sldIdLst, loadVars, concVars>>

-----------------------------------------------------------------------------
(* Initial states *)

\* A presentation with no slides: its relationship table is empty or already
\* holds its slide master.
InitColl ==
    /\ heap = <<>>
    /\ prs_rels \in {<<>>, <<Rel(1, RT_SLIDE_MASTER, Ref("master", 1))>>}
    /\ sldIdLst = <<>>
    /\ ret = Returned("new", 0, None, <<>>)

InitLoad ==
    /\ part = SlideLayout__init__
    /\ pkgpart = [rels |-> <<>>, saved_new |-> FALSE, layout |-> None]
    /\ images \in {<<>>, <<"bytes_a">>}
    /\ calls = <<>>

InitConc ==
    /\ pc = [t \in {1, 2} |-> "idle"]
    /\ loc = [t \in {1, 2} |-> [slide |-> None, rId |-> 0, idx |-> 0, layout |-> None]]

Init == InitColl /\ InitLoad /\ InitConc

-----------------------------------------------------------------------------
(* Constructing, saving and loading one slide-like part *)

\* What a relationship of a slide-like package part can be.
RelKinds ==
    ({RT_SLIDE_LAYOUT} \X Layouts) \cup ({RT_SLIDE_MASTER} \X Masters)
        \cup {<<RT_IMAGE, Ref("image", 1)>>}

PkgPart(rels, saved_new, layout) ==
    [rels |-> rels, saved_new |-> saved_new, layout |-> layout]

\* Slide(slidelayout)
NewSlide(layout) ==
    /\ part' = Slide__init__(layout)
    /\ UNCHANGED <<pkgpart, images, calls, collVars, concVars>>

\* SlideLayout()
NewSlideLayout ==
    /\ part' = SlideLayout__init__
    /\ UNCHANGED <<pkgpart, images, calls, collVars, concVars>>

\* SlideMaster()
NewSlideMaster ==
    /\ part' = SlideMaster__init__
    /\ UNCHANGED <<pkgpart, images, calls, collVars, concVars>>

\* A package part is read from a file before a part is loaded from it: its
\* relationship table starts empty ...
NewPkgPart ==
    /\ ~part.loaded
    /\ pkgpart /= PkgPart(<<>>, FALSE, None)
    /\ pkgpart' = PkgPart(<<>>, FALSE, None)
    /\ UNCHANGED <<part, images, calls, collVars, concVars>>

\* ... and takes the file's relationships one by one, rIds in table order.
PkgAddRel(kind) ==
    /\ ~part.loaded
    /\ ~pkgpart.saved_new
    /\ Len(pkgpart.rels) < MaxRels
    /\ \A i \in 1..Len(pkgpart.rels) : pkgpart.rels[i].rId = i
    /\ pkgpart' = PkgPart(Append(pkgpart.rels,
                                 Rel(Len(pkgpart.rels) + 1, kind[1], kind[2])),
                          FALSE, None)
    /\ UNCHANGED <<part, images, calls, collVars, concVars>>

\* The part's relationship set written out as a package part; saved_new and
\* layout record that it is the one Slide(layout) recorded.
SavePart ==
    /\ pkgpart' = PkgPart(part._relationships,
                          part.cls = CT_SLIDE /\ ~part.loaded,
                          part._slidelayout)
    /\ UNCHANGED <<part, images, calls, collVars, concVars>>

\* PartClass()._load(pkgpart, part_dict) on a part just constructed for loading.
LoadPart ==
    /\ part \in {Slide__init__(None), SlideLayout__init__, SlideMaster__init__}
    /\ part' = CASE part.cls = CT_SLIDE -> Slide_load(part, pkgpart.rels)
                 [] part.cls = CT_SLIDE_LAYOUT -> SlideLayout_load(part, pkgpart.rels)
                 [] part.cls = CT_SLIDE_MASTER -> SlideMaster_load(part, pkgpart.rels)
    /\ UNCHANGED <<pkgpart, images, calls, collVars, concVars>>

NextLoad ==
    \/ \E layout \in Layouts \cup {None} : NewSlide(layout)
    \/ NewSlideLayout
    \/ NewSlideMaster
    \/ NewPkgPart
    \/ \E kind \in RelKinds : PkgAddRel(kind)
    \/ SavePart
    \/ LoadPart

SpecLoad == Init /\ [][NextLoad]_vars

-----------------------------------------------------------------------------
(* Adding images to one slide-like part *)

\* part._add_image(file)
AddImage(file) ==
    /\ Len(calls) < MaxCalls
    /\ LET a == _add_image(part._relationships, images, file)
       IN /\ part' = [part EXCEPT !._relationships = a.rels]
          /\ images' = a.images
          /\ calls' = Append(calls, [file |-> file, image |-> a.image, rel |-> a.rel])
    /\ UNCHANGED <<pkgpart, collVars, concVars>>

\* A part constructed in the package: a new slide, or a layout or a master as
\* a load leaves it.
ImageParts ==
    {Slide__init__(layout) : layout \in Layouts \cup {None}}
        \cup {SlideLayout_load(SlideLayout__init__,
                               <<Rel(1, RT_SLIDE_MASTER, Ref("master", 1))>>),
              SlideMaster_load(SlideMaster__init__,
                               <<Rel(1, RT_SLIDE_LAYOUT, Ref("layout", 1)),
                                 Rel(2, RT_IMAGE, Ref("image", 1))>>)}

\* Another part of the same package becomes the part under test.
OtherPart(p) ==
    /\ p /= part
    /\ calls /= <<>>
    /\ \A i \in 1..Len(p._relationships) :
          p._relationships[i].reltype = RT_IMAGE
              => p._relationships[i].target.id <= Len(images)
    /\ part' = p
    /\ calls' = <<>>
    /\ UNCHANGED <<pkgpart, images, collVars, concVars>>

NextImage ==
    \/ \E file \in Files : AddImage(file)
    \/ \E p \in ImageParts : OtherPart(p)

SpecImage == Init /\ [][NextImage]_vars

-----------------------------------------------------------------------------
(* One caller of a SlideCollection *)

Next ==
    \/ \E layout \in Layouts \cup {None} : add_slide(layout)
    \/ \E key \in Keys : getitem(key)
    \/ iterate
    \/ length

Spec == Init /\ [][Next]_vars

-----------------------------------------------------------------------------
(* Two add_slide calls on one collection with no synchronisation: each        *)
(* statement of add_slide is a step, _add_relationship is two (the rId is     *)
(* taken, the relationship is stored) and _rename_slides one per slide, its   *)
(* generator reading sldIdLst as it goes.                                     *)

Threads == {1, 2}

\* slide = Slide(slidelayout)
conc_new_slide(t, layout) ==
    /\ pc[t] = "idle"
    /\ heap' = Append(heap, Slide__init__(layout))
    /\ loc' = [loc EXCEPT ![t].slide = Ref("slide", Len(heap) + 1),
                          ![t].layout = layout]
    /\ pc' = [pc EXCEPT ![t] = "rel_read"]
    /\ UNCHANGED <<prs_rels, sldIdLst, ret, loadVars>>

\* self._presentation._add_relationship(RT.SLIDE, slide): no relationship to
\* the new slide exists, the next free rId is taken ...
conc_rel_read(t) ==
    /\ pc[t] = "rel_read"
    /\ existing_rel(prs_rels, RT_SLIDE, loc[t].slide) = {}
    /\ loc' = [loc EXCEPT ![t].rId = next_rId(prs_rels)]
    /\ pc' = [pc EXCEPT ![t] = "rel_write"]
    /\ UNCHANGED <<heap, prs_rels, sldIdLst, ret, loadVars>>

\* ... and the relationship is stored under it.
conc_rel_write(t) ==
    /\ pc[t] = "rel_write"
    /\ prs_rels' = Append(prs_rels, Rel(loc[t].rId, RT_SLIDE, loc[t].slide))
    /\ pc' = [pc EXCEPT ![t] = "add_sldId"]
    /\ UNCHANGED <<heap, sldIdLst, ret, loc, loadVars>>

\* self._sldIdLst.add_sldId(rel.rId)
conc_add_sldId(t) ==
    /\ pc[t] = "add_sldId"
    /\ sldIdLst' = add_sldId(sldIdLst, loc[t].rId)
    /\ loc' = [loc EXCEPT ![t].idx = 0]
    /\ pc' = [pc EXCEPT ![t] = "rename"]
    /\ UNCHANGED <<heap, prs_rels, ret, loadVars>>

\* A renumbering that names only the last slide of the collection, by the
\* collection's length.
conc_rename_step_tail_only(t) ==
    /\ pc[t] = "rename"
    /\ IF loc[t].idx = 0
       THEN LET slide == _slide_from_sldId(prs_rels, sldIdLst[Len(sldIdLst)])
            IN /\ heap' = [heap EXCEPT ![slide.id].partname =
                                           partname_of(Len(sldIdLst) - 1)]
               /\ loc' = [loc EXCEPT ![t].idx = Len(sldIdLst)]
               /\ UNCHANGED pc
       ELSE /\ pc' = [pc EXCEPT ![t] = "done"]
            /\ UNCHANGED <<heap, loc>>
    /\ UNCHANGED <<prs_rels, sldIdLst, ret, loadVars>>

\* One turn of the loop of _rename_slides, or its end and add_slide's return.
conc_rename_step(t) ==
    /\ pc[t] = "rename"
    /\ IF loc[t].idx < Len(sldIdLst)
       THEN LET slide == _slide_from_sldId(prs_rels, sldIdLst[loc[t].idx + 1])
            IN /\ heap' = [heap EXCEPT ![slide.id].partname = partname_of(loc[t].idx)]
               /\ loc' = [loc EXCEPT ![t].idx = loc[t].idx + 1]
               /\ UNCHANGED pc
       ELSE /\ pc' = [pc EXCEPT ![t] = "done"]
            /\ UNCHANGED <<heap, loc>>
    /\ UNCHANGED <<prs_rels, sldIdLst, ret, loadVars>>

NextConc ==
    \E t \in Threads :
        \/ \E layout \in Layouts \cup {None} : conc_new_slide(t, layout)
        \/ conc_rel_read(t)
        \/ conc_rel_write(t)
        \/ conc_add_sldId(t)
        \/ conc_rename_step(t)

SpecConc == Init /\ [][NextConc]_vars

-----------------------------------------------------------------------------
(* Claims about SlideCollection, checked under Spec *)

\* The slide object at 0-based collection index i.
SlideAt(i) == heap[__getitem__(sldIdLst, prs_rels, i).id]

\* C1: once add_slide has been called on an initially empty collection, the
\* slide at collection index i is named '/ppt/slides/slide<i+1>.xml' for every
\* i below the length: the names are slide1..slidek in collection order, the
\* collection's entries are k different slides, and every slide made is in it.
C1_RenumberingInvariant ==
    Len(sldIdLst) >= 1 =>
        /\ \A i \in 0..(Len(sldIdLst) - 1) :
              /\ __getitem__(sldIdLst, prs_rels, i).kind = "slide"
              /\ SlideAt(i).partname = <<"/ppt/slides/slide", i + 1, ".xml">>
        /\ \A i, j \in 0..(Len(sldIdLst) - 1) :
              i /= j => /\ __getitem__(sldIdLst, prs_rels, i)
                            /= __getitem__(sldIdLst, prs_rels, j)
                        /\ SlideAt(i).partname /= SlideAt(j).partname
        /\ Len(heap) = Len(sldIdLst)

C1_Witness ==
    /\ ret.op = "add_slide"
    /\ Len(sldIdLst) = 3
    /\ SlideAt(2).partname = <<"/ppt/slides/slide", 3, ".xml">>

\* C2: between public calls, len(collection) is the length of sldIdLst (and
\* of what iteration yields), and every sldIdLst entry's rId is the rId of
\* exactly one relationship of the presentation, whose target is a slide.
C2_BackingListInvariant ==
    /\ ret.op = "len" => ret.key = Len(sldIdLst)
    /\ ret.op = "iter" => Len(ret.items) = Len(sldIdLst)
    /\ \A i \in 1..Len(sldIdLst) :
          /\ Cardinality({j \in 1..Len(prs_rels) :
                             prs_rels[j].rId = sldIdLst[i].rId}) = 1
          /\ _slide_from_sldId(prs_rels, sldIdLst[i]).kind = "slide"

C2_Witness ==
    /\ ret.op = "len"
    /\ ret.key = 2
    /\ Len(prs_rels) = 3

\* C3: a call add_slide(L) on a collection of length n leaves it with length
\* n+1, get(n) the slide returned, that slide's slidelayout L, and get(i) for
\* every i < n the slide it was before, unchanged in its layout.
C3_AddSlideAppends ==
    [][(ret'.op = "add_slide" /\ ret' /= ret) =>
          LET n == Len(sldIdLst) IN
          /\ Len(sldIdLst') = n + 1
          /\ __getitem__(sldIdLst', prs_rels', n) = ret'.value
          /\ ret'.value.kind = "slide"
          /\ slidelayout(heap'[ret'.value.id]) = ret'.items[1]
          /\ \A i \in 0..(n - 1) :
                /\ __getitem__(sldIdLst', prs_rels', i)
                      = __getitem__(sldIdLst, prs_rels, i)
                /\ slidelayout(heap'[__getitem__(sldIdLst', prs_rels', i).id])
                      = slidelayout(SlideAt(i))]_vars

C3_Witness ==
    /\ ret.op = "add_slide"
    /\ Len(sldIdLst) = 2
    /\ ret.value = __getitem__(sldIdLst, prs_rels, 1)
    /\ slidelayout(SlideAt(1)) = Ref("layout", 2)
    /\ slidelayout(SlideAt(0)) = Ref("layout", 1)

\* C4 as claimed: get(len) and get(-1) raise IndexError on every collection;
\* no index outside 0..len-1 returns a slide.
C4_OutOfRangeAlwaysFails ==
    (ret.op = "getitem" /\ (ret.key >= Len(sldIdLst) \/ ret.key < 0))
        => ret.value = IndexError

\* C4 as amended: every index >= len raises IndexError, and so does every
\* index < -len (get(-1) on an empty collection among them); an index k with
\* -len <= k < 0 passes the bounds check and returns the slide at len+k, so
\* get(-1) on a non-empty collection returns the last slide.
C4_UpperBoundChecked ==
    ret.op = "getitem" =>
        LET n == Len(sldIdLst) IN
        /\ ret.key >= n => ret.value = IndexError
        /\ ret.key < -n => ret.value = IndexError
        /\ (0 <= ret.key /\ ret.key < n)
              => ret.value = _slides(sldIdLst, prs_rels)[ret.key + 1]
        /\ (-n <= ret.key /\ ret.key < 0)
              => ret.value = _slides(sldIdLst, prs_rels)[n + ret.key + 1]

C4_Witness ==
    /\ ret.op = "getitem"
    /\ ret.key = -1
    /\ Len(sldIdLst) = 2
    /\ ret.value = Ref("slide", 2)

-----------------------------------------------------------------------------
(* Claims about loading, checked under SpecLoad *)

IsLayoutRel(rel) == rel.reltype = RT_SLIDE_LAYOUT
IsMasterRel(rel) == rel.reltype = RT_SLIDE_MASTER

Targets(rels) == [i \in 1..Len(rels) |-> rels[i].target]

\* C5: a fresh Slide loaded from the relationship set that Slide(L) recorded
\* has slidelayout L, for every L (no layout included).
C5_LayoutRoundTrip ==
    (part.cls = CT_SLIDE /\ part.loaded /\ pkgpart.saved_new)
        => /\ part._relationships = pkgpart.rels
           /\ slidelayout(part) = pkgpart.layout

C5_Witness ==
    /\ part.cls = CT_SLIDE
    /\ part.loaded
    /\ pkgpart.saved_new
    /\ pkgpart.layout = Ref("layout", 2)
    /\ slidelayout(part) = Ref("layout", 2)

\* C6: a loaded SlideMaster's slidelayouts are exactly the targets of its
\* RT.SLIDE_LAYOUT relationships, in relationship-table order; with no such
\* relationship, and before any load, the collection is empty.
C6_LayoutsInTableOrder ==
    part.cls = CT_SLIDE_MASTER =>
        /\ part.loaded =>
              slidelayouts(part)
                  = Targets(SelectSeq(part._relationships, IsLayoutRel))
        /\ ~part.loaded => slidelayouts(part) = <<>>

C6_Witness ==
    /\ part.cls = CT_SLIDE_MASTER
    /\ part.loaded
    /\ Targets(part._relationships)
          = <<Ref("layout", 2), Ref("layout", 1), Ref("layout", 3)>>
    /\ slidelayouts(part)
          = <<Ref("layout", 2), Ref("layout", 1), Ref("layout", 3)>>

\* C7: on a SlideLayout, .shapes raises AssertionError until a load has
\* completed, .slidemaster raises AssertionError as long as no RT.SLIDE_MASTER
\* relationship has been resolved (a load without one included), neither
\* returns None, and a slidemaster returned is a master the part's
\* relationships name.
C7_FailFastAccessors ==
    part.cls = CT_SLIDE_LAYOUT =>
        /\ ~part.loaded => shapes(part) = "AssertionError"
        /\ (~part.loaded \/ SelectSeq(part._relationships, IsMasterRel) = <<>>)
              => slidemaster(part) = AssertionError
        /\ shapes(part) /= NoShapes
        /\ slidemaster(part) /= None
        /\ slidemaster(part) /= AssertionError
              => \E i \in 1..Len(part._relationships) :
                    /\ IsMasterRel(part._relationships[i])
                    /\ part._relationships[i].target = slidemaster(part)

C7_Witness ==
    /\ part.cls = CT_SLIDE_LAYOUT
    /\ part.loaded
    /\ Len(part._relationships) = 2
    /\ SelectSeq(part._relationships, IsMasterRel) = <<>>
    /\ slidemaster(part) = AssertionError
    /\ shapes(part) = ShapeCollection

-----------------------------------------------------------------------------
(* Claims about images, checked under SpecImage *)

\* C8: two _add_image calls on one part with files holding the same bytes
\* return the same image and the same relationship (equal rId), and the part
\* never holds two image relationships to one image, nor two relationships
\* with one rId.
C8_ImageRelationshipReuse ==
    /\ \A i, j \in 1..Len(calls) :
          Content(calls[i].file) = Content(calls[j].file)
              => /\ calls[i].image = calls[j].image
                 /\ calls[i].rel.rId = calls[j].rel.rId
                 /\ calls[i].rel = calls[j].rel
    /\ \A i \in 1..Len(calls) :
          \E k \in 1..Len(part._relationships) :
              part._relationships[k] = calls[i].rel
    /\ \A a, b \in 1..Len(part._relationships) :
          a /= b =>
              /\ part._relationships[a].rId /= part._relationships[b].rId
              /\ ~(/\ part._relationships[a].reltype = RT_IMAGE
                    /\ part._relationships[b].reltype = RT_IMAGE
                    /\ part._relationships[a].target
                          = part._relationships[b].target)

C8_Witness ==
    /\ Len(calls) >= 2
    /\ calls[1].file = "a.png"
    /\ calls[2].file = "a_copy.png"
    /\ calls[1].rel.rId = calls[2].rel.rId
    /\ Len(part._relationships) = 2

-----------------------------------------------------------------------------
(* Claims about unsynchronised callers, checked under SpecConc *)

\* The slides' part names are slide1..slideN in collection order.
NamesInOrder ==
    /\ \A i \in 0..(Len(sldIdLst) - 1) :
          /\ __getitem__(sldIdLst, prs_rels, i).kind = "slide"
          /\ SlideAt(i).partname = <<"/ppt/slides/slide", i + 1, ".xml">>
    /\ \A i, j \in 0..(Len(sldIdLst) - 1) :
          i /= j => __getitem__(sldIdLst, prs_rels, i)
                        /= __getitem__(sldIdLst, prs_rels, j)

BothReturned == \A t \in Threads : pc[t] = "done"

RIdTakenTwice ==
    \E a, b \in 1..Len(prs_rels) : a /= b /\ prs_rels[a].rId = prs_rels[b].rId

\* C10: two interleaved add_slide calls can leave the naming invariant
\* broken after both have returned (C10_Corrupted is reached), and they do so
\* exactly when both took the same rId: in every other interleaving the names
\* are slide1..slideN in collection order.
C10_CorruptedExactlyByRIdRace ==
    BothReturned => (~NamesInOrder <=> RIdTakenTwice)

C10_Corrupted ==
    /\ BothReturned
    /\ Len(sldIdLst) = 2
    /\ ~NamesInOrder

====
